---- MODULE Spec2Model ----
(***************************************************************************)
(* Model of jcip-annotations.py: a depth-first walk of a directory tree    *)
(* (process_dir) that rewrites, file by file (process_source), every line  *)
(* beginning with 'import org.apache.http.annotation.' through a scratch   *)
(* file that is then moved over the original.                              *)
(*                                                                         *)
(* File names are sequences of characters, lines are sequences of text     *)
(* fragments, a file is a sequence of lines.  Every library call that can  *)
(* raise (os.listdir, tempfile.mkstemp, os.fdopen, open, read/write,       *)
(* close, shutil.move, os.remove) either succeeds or raises.               *)
(***************************************************************************)
EXTENDS Naturals, Sequences, FiniteSets

\* Bound of the model: the most text fragments a generated file holds.
MaxFileTokens == 4

(***************************************************************************)
(* Text                                                                    *)
(***************************************************************************)
\* The fragments lines are made of.
ImportKw == "import "
OldPkg   == "org.apache.http.annotation."
NewPkg   == "net.jcip.annotations."
Other    == "ThreadSafe;"

\* The fragments of the generated input lines.
LineTokens == {ImportKw, OldPkg, Other}

\* The literal of annot_pattern and the first argument of line.replace.
OldPrefix == <<ImportKw, OldPkg>>
\* The second argument of line.replace.
NewPrefix == <<ImportKw, NewPkg>>

IsPrefixOf(p, s) == Len(p) <= Len(s) /\ SubSeq(s, 1, Len(p)) = p

\* annot_pattern.match(line): re.match anchors the pattern at the start.
AnnotMatch(line) == IsPrefixOf(OldPrefix, line)

\* str.replace(old, new): every non-overlapping occurrence, left to right.
RECURSIVE StrReplace(_, _, _)
StrReplace(s, old, new) ==
  IF Len(s) < Len(old) THEN s
  ELSE IF SubSeq(s, 1, Len(old)) = old
       THEN new \o StrReplace(SubSeq(s, Len(old) + 1, Len(s)), old, new)
       ELSE <<Head(s)>> \o StrReplace(Tail(s), old, new)

\* Variant: line.replace with its two arguments exchanged.
ReplaceSwapped(line) == StrReplace(line, NewPrefix, OldPrefix)

\* Variant: line.replace(old, new, 1) on a line that begins with old.
ReplaceFirstOnly(line) ==
  IF IsPrefixOf(OldPrefix, line)
  THEN NewPrefix \o SubSeq(line, Len(OldPrefix) + 1, Len(line))
  ELSE line

\* line.replace('import org.apache.http.annotation.', 'import net.jcip.annotations.')
LineReplace(line) == StrReplace(line, OldPrefix, NewPrefix)

\* Variant: the replace outside the 'if annot_pattern.match(line)'.
RewriteEveryLine(line) == LineReplace(line)

\* The body of the for loop: the line that dst.write receives.
RewriteLine(line) == IF AnnotMatch(line) THEN LineReplace(line) ELSE line

\* What the loop has written to dst after reading the first k lines.
ScanOutput(lines, k) == [i \in 1..k |-> RewriteLine(lines[i])]

\* Variant: 'changed = True' outside the 'if annot_pattern.match(line)'.
ScanChangedAlways(lines, k) == TRUE

\* The value of 'changed' after reading the first k lines.
ScanChanged(lines, k) == \E i \in 1..k : AnnotMatch(lines[i])

(***************************************************************************)
(* Names                                                                   *)
(***************************************************************************)
NameSvn     == <<".", "s", "v", "n">>
NameTarget  == <<"t", "a", "r", "g", "e", "t">>
NameBin     == <<"b", "i", "n">>
NameClasses == <<"c", "l", "a", "s", "s", "e", "s">>
NameSrc     == <<"s", "r", "c">>
NameBins    == <<"b", "i", "n", "s">>
NameXsvn    == <<"x", "s", "v", "n">>

NameJava    == <<"A", ".", "j", "a", "v", "a">>
NameJavax   == <<"A", ".", "j", "a", "v", "a", "x">>
NameTxt     == <<"A", ".", "t", "x", "t">>
NameNoDot   == <<"A", "j", "a", "v", "a">>

DirNames  == {NameSvn, NameTarget, NameBin, NameClasses, NameSrc, NameBins, NameXsvn}
FileNames == {NameJava, NameJavax, NameTxt, NameNoDot}

\* In a regular expression an unescaped '.' is any character but a newline.
ReChar(p, c) == IF p = "." THEN c # "\n" ELSE p = c

\* pattern.match(name) for a pattern that is a sequence of characters and dots.
ReMatchPrefix(pat, s) ==
  Len(pat) <= Len(s) /\ \A i \in 1..Len(pat) : ReChar(pat[i], s[i])

\* Variant: ignore_pattern without its last alternative.
IgnoreAlternativesShort == {NameSvn, NameTarget, NameBin}

\* The alternatives of ignore_pattern, '^(.svn|target|bin|classes)'.
IgnoreAlternatives == {NameSvn, NameTarget, NameBin, NameClasses}

\* ignore_pattern.match(file)
IgnoreMatch(file) == \E alt \in IgnoreAlternatives : ReMatchPrefix(alt, file)

\* java_pattern.match(file), '^.*\.java': any run of non-newline characters,
\* then the literal '.java'; nothing anchors the end.
JavaSuffix == <<".", "j", "a", "v", "a">>
JavaMatch(file) ==
  \E k \in 0..Len(file) :
    /\ k + Len(JavaSuffix) <= Len(file)
    /\ \A i \in 1..k : file[i] # "\n"
    /\ SubSeq(file, k + 1, k + Len(JavaSuffix)) = JavaSuffix

(***************************************************************************)
(* The directory tree: ./F1, ./D1/, ./D1/D2/, ./D1/D2/F2                   *)
(***************************************************************************)
Root  == "."
Dirs  == {"D1", "D2"}
Files == {"F1", "F2"}
Nodes == Dirs \cup Files
NoFile == "none"

Children(d) ==
  CASE d = Root -> {"F1", "D1"}
    [] d = "D1" -> {"D2"}
    [] d = "D2" -> {"F2"}
    [] OTHER    -> {}

\* os.path.isdir(f)
IsDir(f) == f \in Dirs

\* The directories on the path from the root to node n, the root excluded.
Ancestors(n) ==
  CASE n = "F2" -> {"D1", "D2"}
    [] n = "D2" -> {"D1"}
    [] OTHER    -> {}

\* os.listdir(dir) returns the entries in arbitrary order.
Listings(d) ==
  LET S == Children(d)
      n == Cardinality(S)
  IN  {s \in [1..n -> S] : \A i, j \in 1..n : s[i] = s[j] => i = j}

(***************************************************************************)
(* Generated inputs                                                        *)
(***************************************************************************)
\* Non-empty lines of exactly n fragments.
LinesOfLen(n) == [1..n -> LineTokens]

\* Files (sequences of non-empty lines) of at most n fragments in all.
RECURSIVE FilesUpTo(_)
FilesUpTo(n) ==
  {<<>>} \cup
  UNION {UNION {{<<l>> \o f : f \in FilesUpTo(n - k)} : l \in LinesOfLen(k)}
         : k \in 1..n}

MatchingFile == <<OldPrefix \o <<Other>>>>
PlainFile    == <<<<ImportKw, Other>>>>
SimpleFiles  == {MatchingFile, PlainFile}

\* A file with the old prefix after other text, twice in one line, and not
\* at all.
MixedFile ==
  << <<Other, ImportKw, OldPkg>>,
     <<ImportKw, OldPkg, Other, ImportKw, OldPkg>>,
     <<ImportKw, Other>> >>

VARIABLES
  name,        \* node -> its name in its directory
  content,     \* file -> its lines
  scratch,     \* number of scratch files present in the temporary directory
  tmp,         \* the lines of the scratch file of the call in progress
  stack,       \* the frames of process_dir: the directory and the entries left
  pc,          \* the position of the program
  cur,         \* 'filename' of the process_source call in progress
  changed,     \* 'changed' of the call in progress
  copied,      \* lines shutil.move has copied so far
  run,         \* 1 in the first run of the script, 2 in the second
  orig,        \* history: the content when the first run started
  visited,     \* history: directories process_dir was called on
  dispatched,  \* history: files process_source was called on
  written,     \* history: files whose path a rename or a copy has written
  replaced,    \* history: files over which shutil.move completed
  errIn,       \* history: files during whose processing an error was raised
  abortCause,  \* history: the call whose exception ended the run
  after1,      \* history: the content when the first run ended
  second       \* history: what the second run did

vars == <<name, content, scratch, tmp, stack, pc, cur, changed, copied, run,
          orig, visited, dispatched, written, replaced, errIn, abortCause,
          after1, second>>

fsVars   == <<name, content>>
callVars == <<tmp, cur, changed, copied>>
histVars == <<orig, visited, dispatched, written, replaced, errIn, abortCause,
              after1, second>>

NoSecond == [clean |-> FALSE, matched |-> FALSE, replaced |-> {}]

\* The trees the runs start from: every combination of names over simple
\* contents, and every generated content of ./F1 beside an ignored directory.
Init ==
  /\ \/ /\ \E dn \in [Dirs -> DirNames], fn \in [Files -> FileNames] :
             name = [n \in Nodes |-> IF n \in Dirs THEN dn[n] ELSE fn[n]]
        /\ content \in [Files -> SimpleFiles]
     \/ /\ name = [n \in Nodes |-> IF n \in Dirs THEN NameTarget ELSE NameJava]
        /\ \E c \in FilesUpTo(MaxFileTokens) \cup {MixedFile} :
             content = [f \in Files |-> IF f = "F1" THEN c ELSE MatchingFile]
  /\ scratch = 0
  /\ tmp = <<>>
  /\ stack = <<>>
  /\ pc = "start"
  /\ cur = NoFile
  /\ changed = FALSE
  /\ copied = 0
  /\ run = 1
  /\ orig = content
  /\ visited = {}
  /\ dispatched = {}
  /\ written = {}
  /\ replaced = {}
  /\ errIn = {}
  /\ abortCause = "none"
  /\ after1 = content
  /\ second = NoSecond

(***************************************************************************)
(* process_dir                                                             *)
(***************************************************************************)
Top == stack[Len(stack)]

\* The caller's frame once the for loop has taken its next entry.
Advanced == [stack EXCEPT ![Len(stack)].files = Tail(@)]

\* The call process_dir(d) up to the start of its loop: os.listdir(d) gives a
\* listing or raises, and nothing up the stack catches what it raises.
ProcessDirCall(d, stk) ==
  /\ visited' = visited \cup {d}
  /\ \/ /\ \E files \in Listings(d) :
             stack' = Append(stk, [dir |-> d, files |-> files])
        /\ pc' = "walk"
        /\ abortCause' = abortCause
     \/ /\ stack' = stk
        /\ pc' = "aborted"
        /\ abortCause' = "listdir"

\* The last statement of the script: process_dir('.')
Start ==
  /\ pc = "start"
  /\ ProcessDirCall(Root, stack)
  /\ UNCHANGED <<fsVars, scratch, callVars, run, orig, dispatched, written,
                 replaced, errIn, after1, second>>

\* The loop of process_dir is exhausted: the call returns.
Return ==
  /\ pc = "walk"
  /\ Top.files = <<>>
  /\ stack' = SubSeq(stack, 1, Len(stack) - 1)
  /\ pc' = IF Len(stack) = 1 THEN "done" ELSE "walk"
  /\ UNCHANGED <<fsVars, scratch, callVars, run, histVars>>

\* if os.path.isdir(f): if not ignore_pattern.match(file): process_dir(f)
Descend ==
  /\ pc = "walk"
  /\ Top.files # <<>>
  /\ LET file == Head(Top.files)
     IN  /\ IsDir(file)
         /\ ~IgnoreMatch(name[file])
         /\ ProcessDirCall(file, Advanced)
  /\ UNCHANGED <<fsVars, scratch, callVars, run, orig, dispatched, written,
                 replaced, errIn, after1, second>>

\* A directory whose name ignore_pattern matches: the loop goes on.
SkipDir ==
  /\ pc = "walk"
  /\ Top.files # <<>>
  /\ LET file == Head(Top.files)
     IN  /\ IsDir(file)
         /\ IgnoreMatch(name[file])
  /\ stack' = Advanced
  /\ UNCHANGED <<fsVars, scratch, callVars, pc, run, histVars>>

\* else: if java_pattern.match(file): process_source(f)
Dispatch ==
  /\ pc = "walk"
  /\ Top.files # <<>>
  /\ LET file == Head(Top.files)
     IN  /\ ~IsDir(file)
         /\ JavaMatch(name[file])
         /\ cur' = file
         /\ dispatched' = dispatched \cup {file}
  /\ stack' = Advanced
  /\ pc' = "mkstemp"
  /\ UNCHANGED <<fsVars, scratch, tmp, changed, copied, run, orig, visited,
                 written, replaced, errIn, abortCause, after1, second>>

\* A file whose name java_pattern does not match: the loop goes on.
SkipFile ==
  /\ pc = "walk"
  /\ Top.files # <<>>
  /\ LET file == Head(Top.files)
     IN  /\ ~IsDir(file)
         /\ ~JavaMatch(name[file])
  /\ stack' = Advanced
  /\ UNCHANGED <<fsVars, scratch, callVars, pc, run, histVars>>

(***************************************************************************)
(* process_source                                                          *)
(***************************************************************************)
\* process_source returns to the loop of process_dir.
ReturnToWalk ==
  /\ pc' = "walk"
  /\ cur' = NoFile
  /\ tmp' = <<>>
  /\ changed' = FALSE
  /\ copied' = 0

\* A statement inside the outer try raises: control goes to 'except:'.
Raise ==
  /\ pc' = "except"
  /\ errIn' = errIn \cup {cur}

\* tmp = tempfile.mkstemp(), before the try: what it raises leaves
\* process_source and process_dir.
Mkstemp ==
  /\ pc = "mkstemp"
  /\ \/ /\ scratch' = scratch + 1
        /\ tmp' = <<>>
        /\ pc' = "fdopen"
        /\ UNCHANGED <<errIn, abortCause>>
     \/ /\ pc' = "aborted"
        /\ errIn' = errIn \cup {cur}
        /\ abortCause' = "mkstemp"
        /\ UNCHANGED <<scratch, tmp>>
  /\ UNCHANGED <<fsVars, stack, cur, changed, copied, run, orig, visited,
                 dispatched, written, replaced, after1, second>>

\* changed = False; dst = os.fdopen(tmpfd, 'w')
Fdopen ==
  /\ pc = "fdopen"
  /\ changed' = FALSE
  /\ \/ pc' = "open" /\ errIn' = errIn
     \/ Raise
  /\ UNCHANGED <<fsVars, scratch, tmp, stack, cur, copied, run, orig, visited,
                 dispatched, written, replaced, abortCause, after1, second>>

\* src = open(filename); when it raises, 'finally: dst.close()' runs first.
OpenSrc ==
  /\ pc = "open"
  /\ \/ pc' = "scan" /\ errIn' = errIn
     \/ Raise
  /\ UNCHANGED <<fsVars, scratch, tmp, stack, cur, changed, copied, run, orig,
                 visited, dispatched, written, replaced, abortCause, after1,
                 second>>

\* for line in src: ... dst.write(line), to the end of the file or to the
\* line at which the read or the write raises.
Scan ==
  /\ pc = "scan"
  /\ LET lines == content[cur]
         n     == Len(lines)
     IN  \/ /\ tmp' = ScanOutput(lines, n)
            /\ changed' = ScanChanged(lines, n)
            /\ pc' = "close"
            /\ errIn' = errIn
         \/ /\ \E k \in 0..n :
                 /\ tmp' = ScanOutput(lines, k)
                 /\ changed' = ScanChanged(lines, k)
            /\ Raise
  /\ second' = IF run = 2 /\ changed'
               THEN [second EXCEPT !.matched = TRUE] ELSE second
  /\ UNCHANGED <<fsVars, scratch, stack, cur, copied, run, orig, visited,
                 dispatched, written, replaced, abortCause, after1>>

\* finally: src.close() and finally: dst.close(), which flushes the scratch
\* file; then the branch on 'changed'.
Close ==
  /\ pc = "close"
  /\ \/ /\ pc' = IF changed THEN "move" ELSE "remove"
        /\ errIn' = errIn
     \/ Raise
  /\ UNCHANGED <<fsVars, scratch, tmp, stack, cur, changed, copied, run, orig,
                 visited, dispatched, written, replaced, abortCause, after1,
                 second>>

\* The path 'filename' receives bytes of the scratch file.
NoteWritten ==
  /\ written' = written \cup {cur}
  /\ second' = IF run = 2
               THEN [second EXCEPT !.replaced = @ \cup {cur}] ELSE second

\* shutil.move(tmpfile, filename): os.rename(src, real_dst) succeeds and the
\* move is done, or raises OSError (the temporary directory is on another
\* file system, for one) and shutil.move goes on to copy.
Move ==
  /\ pc = "move"
  /\ \/ /\ content' = [content EXCEPT ![cur] = tmp]
        /\ scratch' = scratch - 1
        /\ replaced' = replaced \cup {cur}
        /\ NoteWritten
        /\ ReturnToWalk
     \/ /\ pc' = "copyopen"
        /\ UNCHANGED <<content, scratch, replaced, written, second, callVars>>
  /\ UNCHANGED <<name, stack, run, orig, visited, dispatched, errIn,
                 abortCause, after1>>

\* shutil.copy2 opens the destination for writing, which truncates it.
CopyOpen ==
  /\ pc = "copyopen"
  /\ \/ /\ content' = [content EXCEPT ![cur] = <<>>]
        /\ copied' = 0
        /\ pc' = "copywrite"
        /\ NoteWritten
        /\ errIn' = errIn
     \/ /\ Raise
        /\ UNCHANGED <<content, copied, written, second>>
  /\ UNCHANGED <<name, scratch, tmp, stack, cur, changed, run, orig, visited,
                 dispatched, replaced, abortCause, after1>>

\* shutil.copy2 copies the scratch file piece by piece, then returns.
CopyWrite ==
  /\ pc = "copywrite"
  /\ \/ /\ copied < Len(tmp)
        /\ content' = [content EXCEPT ![cur] = Append(@, tmp[copied + 1])]
        /\ copied' = copied + 1
        /\ pc' = pc
        /\ UNCHANGED <<errIn, replaced>>
     \/ /\ copied = Len(tmp)
        /\ pc' = "unlink"
        /\ replaced' = replaced \cup {cur}
        /\ UNCHANGED <<content, copied, errIn>>
     \/ /\ Raise
        /\ UNCHANGED <<content, copied, replaced>>
  /\ UNCHANGED <<name, scratch, tmp, stack, cur, changed, run, orig, visited,
                 dispatched, written, abortCause, after1, second>>

\* The last step of shutil.move after a copy: os.unlink(src).
Unlink ==
  /\ pc = "unlink"
  /\ \/ /\ scratch' = scratch - 1
        /\ ReturnToWalk
        /\ errIn' = errIn
     \/ /\ Raise
        /\ UNCHANGED <<scratch, callVars>>
  /\ UNCHANGED <<fsVars, stack, run, orig, visited, dispatched, written,
                 replaced, abortCause, after1, second>>

\* else: os.remove(tmpfile)
Remove ==
  /\ pc = "remove"
  /\ \/ /\ scratch' = scratch - 1
        /\ ReturnToWalk
        /\ errIn' = errIn
     \/ /\ Raise
        /\ UNCHANGED <<scratch, callVars>>
  /\ UNCHANGED <<fsVars, stack, run, orig, visited, dispatched, written,
                 replaced, abortCause, after1, second>>

\* Variant: 'except: pass', a handler that leaves the scratch file.
ExceptKeepsScratch ==
  /\ pc = "except"
  /\ ReturnToWalk
  /\ UNCHANGED <<fsVars, scratch, stack, run, histVars>>

\* except: os.remove(tmpfile).  The handler does not re-raise: when the
\* remove succeeds process_source returns normally; when the remove raises,
\* that exception leaves process_source and process_dir.
Except ==
  /\ pc = "except"
  /\ \/ /\ scratch' = scratch - 1
        /\ ReturnToWalk
        /\ abortCause' = abortCause
     \/ /\ pc' = "aborted"
        /\ abortCause' = "handler"
        /\ UNCHANGED <<scratch, callVars>>
  /\ UNCHANGED <<fsVars, stack, run, orig, visited, dispatched, written,
                 replaced, errIn, after1, second>>

\* The script is run again on the tree the first run left.
SecondRun ==
  /\ run = 1
  /\ pc \in {"done", "aborted"}
  /\ run' = 2
  /\ after1' = content
  /\ second' = [NoSecond EXCEPT !.clean = (errIn = {} /\ abortCause = "none")]
  /\ pc' = "start"
  /\ stack' = <<>>
  /\ cur' = NoFile
  /\ tmp' = <<>>
  /\ changed' = FALSE
  /\ copied' = 0
  /\ UNCHANGED <<fsVars, scratch, orig, visited, dispatched, written,
                 replaced, errIn, abortCause>>

Next ==
  \/ Start
  \/ Return
  \/ Descend
  \/ SkipDir
  \/ Dispatch
  \/ SkipFile
  \/ Mkstemp
  \/ Fdopen
  \/ OpenSrc
  \/ Scan
  \/ Close
  \/ Move
  \/ CopyOpen
  \/ CopyWrite
  \/ Unlink
  \/ Remove
  \/ Except

Spec == Init /\ [][Next]_vars

NextTwice == Next \/ SecondRun

SpecTwice == Init /\ [][NextTwice]_vars

(***************************************************************************)
(* The vocabulary of the claims, stated apart from the program's own       *)
(* operators.                                                              *)
(***************************************************************************)
\* The line begins with 'import org.apache.http.annotation.'.
BeginsWithOld(line) ==
  Len(line) >= 2 /\ line[1] = ImportKw /\ line[2] = OldPkg

HasMatchingLine(file) == \E i \in 1..Len(file) : BeginsWithOld(file[i])

\* The name is one of .svn, target, bin, classes.
OnIgnoreList(n) == n \in {NameSvn, NameTarget, NameBin, NameClasses}

\* The name ends in '.java'.
HasJavaExtension(n) ==
  Len(n) >= 5 /\ SubSeq(n, Len(n) - 4, Len(n)) = <<".", "j", "a", "v", "a">>

\* The complete rewritten content of a file.
Rewritten(file) == [i \in 1..Len(file) |-> RewriteLine(file[i])]

\* shutil.move is at work on the current file.
Moving == pc \in {"move", "copyopen", "copywrite", "unlink"}

\* process_source is not running: it has returned, or an exception has left it.
Exited == pc \in {"walk", "done", "aborted"}

\* C1: at every point the content at a path is the complete original or the
\* complete rewritten content, never a partial mixture.
C1_AllOrNothing ==
  \A f \in Files : content[f] = orig[f] \/ content[f] = Rewritten(orig[f])

\* C2: once an error has been raised while processing a file, the exception
\* is on its way out or has ended the run: the walk never resumes.
C2_ErrorAbortsRun ==
  errIn # {} => pc \in {"except", "aborted"}

\* C3 as claimed: a line that begins with the old prefix becomes the new
\* prefix followed by the remainder of the original line unchanged.
C3_PrefixReplacedOnce ==
  \A f \in replaced : \A i \in 1..Len(orig[f]) :
    BeginsWithOld(orig[f][i]) =>
      /\ i <= Len(content[f])
      /\ content[f][i] = NewPrefix \o SubSeq(orig[f][i], 3, Len(orig[f][i]))

\* C3 as amended: a line that begins with the old prefix becomes the same
\* line with every occurrence of the old prefix, the leading one and any
\* later one, replaced by the new prefix, and all other text unchanged.
C3_EveryOccurrenceReplaced ==
  \A f \in replaced : \A i \in 1..Len(orig[f]) :
    BeginsWithOld(orig[f][i]) =>
      /\ i <= Len(content[f])
      /\ LET in  == orig[f][i]
             out == content[f][i]
         IN  /\ Len(out) = Len(in)
             /\ \A j \in 1..Len(in) :
                  out[j] = IF j >= 2 /\ in[j - 1] = ImportKw /\ in[j] = OldPkg
                           THEN NewPkg ELSE in[j]

\* A file with a line holding the old prefix twice has been moved into place.
C3_Witness ==
  /\ pc = "done"
  /\ "F1" \in replaced
  /\ \E i \in 1..Len(orig["F1"]) :
       /\ BeginsWithOld(orig["F1"][i])
       /\ \E j \in 3..Len(orig["F1"][i]) :
            orig["F1"][i][j - 1] = ImportKw /\ orig["F1"][i][j] = OldPkg

\* C4: a rewritten file has as many lines as before, and every line that
\* does not begin with the old prefix is the line it was, at its position.
C4_OtherLinesPreserved ==
  \A f \in replaced :
    /\ Len(content[f]) = Len(orig[f])
    /\ \A i \in 1..Len(orig[f]) :
         ~BeginsWithOld(orig[f][i]) => content[f][i] = orig[f][i]

\* The file with the prefix after other text, and with matching lines, has
\* been moved into place.
C4_Witness ==
  /\ pc = "done"
  /\ "F1" \in replaced
  /\ orig["F1"] = MixedFile
  /\ content["F1"] # orig["F1"]

C6_IgnoredNeverDescended ==
  \A d \in Dirs :
    OnIgnoreList(name[d]) =>
      /\ d \notin visited
      /\ \A n \in Nodes :
           d \in Ancestors(n) =>
             /\ n \notin visited
             /\ n \notin dispatched
             /\ n # cur
             /\ n \in Files => content[n] = orig[n]

\* The walk is over; it went through ./D1 and passed ./D1/classes, which
\* holds a .java file with a matching line.
C6_Witness ==
  /\ pc = "done"
  /\ "D1" \in visited
  /\ name["D2"] = NameClasses
  /\ name["F2"] = NameJava
  /\ HasMatchingLine(orig["F2"])

\* C7: only files whose name ends in '.java' reach process_source; every
\* other file keeps its content.
C7_OnlyJavaExtension ==
  \A f \in Files :
    ~HasJavaExtension(name[f]) => f \notin dispatched /\ content[f] = orig[f]

C9_AllEligibleRewritten ==
  pc = "done" =>
    \A f \in Files :
      (HasJavaExtension(name[f]) /\ \A d \in Ancestors(f) : ~IgnoreMatch(name[d]))
        => ~HasMatchingLine(content[f])

\* C10 as claimed: whenever process_source has exited, by any path, no
\* scratch file is left.
C10_NoScratchOnAnyExit ==
  Exited => scratch = 0

\* C10 as amended: whenever process_source has exited, no scratch file is
\* left, unless the os.remove of the except handler itself raised.
C10_NoScratchUnlessHandlerRemoveRaised ==
  (Exited /\ abortCause # "handler") => scratch = 0

\* process_source has returned after shutil.move failed part-way through its
\* copy, and the scratch file is gone.
C10_Witness ==
  /\ pc = "walk"
  /\ \E f \in errIn : f \in written /\ f \notin replaced
  /\ scratch = 0

====
